---- MODULE Spec2Model ----
(***************************************************************************)
(* Model of homework.py: a bot that polls the homework-review API, formats *)
(* the status of the first homework record and relays it through a chat    *)
(* bot.  main() is modelled as one sequential process whose position is    *)
(* pc; every callee (check_tokens, get_api_answer, check_response,         *)
(* parse_status, send_message) is an operator computed as the code         *)
(* computes it.  The Cyrillic texts of the source are transliterated to    *)
(* ASCII, one fixed ASCII string per source string.                        *)
(***************************************************************************)
EXTENDS Integers, Sequences, FiniteSets, TLC

VARIABLES
    PRACTICUM_TOKEN,    \* module-level credential (os.getenv)
    TELEGRAM_TOKEN,     \* module-level credential (os.getenv)
    TELEGRAM_CHAT_ID,   \* module-level credential (os.getenv)
    pc,                 \* position of main()
    timestamp,          \* main's local `timestamp` (the cursor)
    response,           \* main's local `response`
    status,             \* main's local `status` (the verdict message)
    error,              \* exception raised in the current iteration
    exit_error,         \* exception that propagated out of main()
    from_date,          \* `from_date` parameter of the latest API request
    api_calls,          \* number of requests.get calls issued so far
    requests,           \* number of API requests issued by the poll loop
    slept,              \* seconds slept so far (time.sleep)
    sent,               \* bot.send_message calls of the current iteration
    log                 \* logging calls of the current iteration

vars == <<PRACTICUM_TOKEN, TELEGRAM_TOKEN, TELEGRAM_CHAT_ID, pc, timestamp,
          response, status, error, exit_error, from_date, api_calls,
          requests, slept, sent, log>>

-----------------------------------------------------------------------------
(* Bounds of the model *)

MaxDate == 2
MaxIter == 2
MaxHomeworks == 2

-----------------------------------------------------------------------------
(* Values *)

\* Python's None (os.getenv of an unset variable, dict.get of a missing key)
None == "None"

\* None in an integer position: `current_date` missing from a body
NoDate == -1

RETRY_PERIOD == 600

ENDPOINT == "https://practicum.yandex.ru/api/user_api/homework_statuses/"

OK == 200

\* bool(v) of a string-or-None value
Truthy(v) == v # None /\ v # ""

HOMEWORK_VERDICTS ==
    [approved |-> "Rabota proverena: revyueru vsyo ponravilos. Ura!",
     reviewing |-> "Rabota vzyata na proverku revyuerom.",
     rejected |-> "Rabota proverena: u revyuera est zamechaniya."]

\* HOMEWORK_VERDICTS.get(status)
VerdictsGet(s) ==
    IF s \in DOMAIN HOMEWORK_VERDICTS THEN HOMEWORK_VERDICTS[s] ELSE None

Exc(type, msg) == [type |-> type, msg |-> msg]

NoError == Exc("none", "")

LogRec(level, text) == [level |-> level, text |-> text]

-----------------------------------------------------------------------------
(* Inputs: what the environment can hand to the program *)

TokenValues == {None, "", "tok"}

StatusValues == {None, "", "approved", "reviewing", "rejected", "unknown"}

NameValues == {None, "", "hw1"}

\* a homework record; None marks a key that is missing from the mapping
Homeworks == [status : StatusValues, homework_name : NameValues]

\* records that follow the first one of a `homeworks` list
TailHomeworks == {[status |-> "rejected", homework_name |-> "hw2"],
                  [status |-> None, homework_name |-> None]}

HomeworkLists ==
    {<<>>} \cup
    UNION {{<<h>> \o t : h \in Homeworks, t \in [1..n -> TailHomeworks]} :
           n \in 0..(MaxHomeworks - 1)}

Dates == {NoDate} \cup 0..MaxDate

Body(isDict, isList, hws, date) ==
    [is_dict |-> isDict, hw_is_list |-> isList, homeworks |-> hws,
     current_date |-> date]

\* the name `response` is unbound before the first successful request
NoResponse == Body(FALSE, FALSE, <<>>, NoDate)

\* decoded JSON bodies: a non-mapping, a mapping whose `homeworks` is not a
\* list, and mappings with a list, each with or without `current_date`
Bodies ==
    {Body(FALSE, FALSE, <<>>, NoDate)} \cup
    {Body(TRUE, FALSE, <<>>, d) : d \in Dates} \cup
    {Body(TRUE, TRUE, l, d) : l \in HomeworkLists, d \in Dates}

Http(connected, code, jsonOk, body) ==
    [connected |-> connected, status_code |-> code, json_ok |-> jsonOk,
     body |-> body]

\* outcomes of requests.get followed by response.json()
HttpOutcomes ==
    {Http(TRUE, OK, TRUE, b) : b \in Bodies} \cup
    {Http(TRUE, 500, TRUE, NoResponse),
     Http(TRUE, OK, FALSE, NoResponse),
     Http(FALSE, 0, FALSE, NoResponse)}

-----------------------------------------------------------------------------
(* The functions of homework.py *)

\* check_tokens with `or` in place of `and`: raises only when all are empty
check_tokens_any ==
    IF ~(Truthy(PRACTICUM_TOKEN) \/ Truthy(TELEGRAM_TOKEN)
         \/ Truthy(TELEGRAM_CHAT_ID))
    THEN [exc |-> Exc("EmptyTokenError", "tokens should not be empty!"),
          log |-> <<LogRec("CRITICAL", "check_tokens func doesnt work")>>]
    ELSE [exc |-> NoError, log |-> <<>>]

\* check_tokens(): the exception it raises, and what it logs
check_tokens ==
    IF ~(Truthy(PRACTICUM_TOKEN) /\ Truthy(TELEGRAM_TOKEN)
         /\ Truthy(TELEGRAM_CHAT_ID))
    THEN [exc |-> Exc("EmptyTokenError", "tokens should not be empty!"),
          log |-> <<LogRec("CRITICAL", "check_tokens func doesnt work")>>]
    ELSE [exc |-> NoError, log |-> <<>>]

\* send_message(bot, message): the bot.send_message call and the log line;
\* a delivery failure is caught inside and never reaches the caller
send_message(message, delivered) ==
    [call |-> [chat_id |-> TELEGRAM_CHAT_ID, text |-> message,
               delivered |-> delivered],
     log |-> IF delivered
             THEN <<LogRec("DEBUG", "<send_message> func is working")>>
             ELSE <<LogRec("ERROR",
                           "send failed, <send_message> is not working")>>]

ApiErrorMsg == "cannot connect to " \o ENDPOINT

\* get_api_answer(timestamp) for one outcome o of the HTTP exchange
get_api_answer(ts, o) ==
    LET payload == [from_date |-> ts]
        inner == IF ~o.connected THEN "connection failed"
                 ELSE IF o.status_code # OK THEN ApiErrorMsg
                 ELSE "json decode failed"
    IN  IF o.connected /\ o.status_code = OK /\ o.json_ok
        THEN [exc |-> NoError, value |-> o.body, payload |-> payload,
              log |-> <<>>]
        ELSE [exc |-> Exc("ApiError", ApiErrorMsg), value |-> NoResponse,
              payload |-> payload,
              log |-> <<LogRec("ERROR", inner \o ", get_api_answer")>>]

\* check_response testing the truth of `homeworks` instead of its type
check_response_falsy(r) ==
    IF ~r.is_dict THEN Exc("TypeError", "response is not a dict type")
    ELSE IF ~r.hw_is_list \/ r.homeworks = <<>>
         THEN Exc("TypeError", "value of homeworks is not list")
         ELSE NoError

\* check_response(response): the exception it raises
check_response(r) ==
    IF ~r.is_dict THEN Exc("TypeError", "response is not a dict type")
    ELSE IF ~r.hw_is_list
         THEN Exc("TypeError", "value of homeworks is not list")
         ELSE NoError

\* parse_status looking at homework_name before status
parse_status_name_first(homework) ==
    LET st == homework.status
        verdict == VerdictsGet(st)
        homework_name == homework.homework_name
    IN  IF ~Truthy(homework_name)
        THEN [exc |-> Exc("ParseError", "homework_name not in homework"),
              value |-> None]
        ELSE IF ~Truthy(st)
        THEN [exc |-> Exc("ParseError", "status not in homework!"),
              value |-> None]
        ELSE IF ~Truthy(verdict)
        THEN [exc |-> Exc("ParseError",
                          "status does not match legit status names"),
              value |-> None]
        ELSE [exc |-> NoError,
              value |-> "Izmenilsya status proverki raboty \""
                        \o homework_name \o "\". " \o verdict]

\* parse_status(homework): the exception it raises or the string it returns
parse_status(homework) ==
    LET st == homework.status
        verdict == VerdictsGet(st)
        homework_name == homework.homework_name
    IN  IF ~Truthy(st)
        THEN [exc |-> Exc("ParseError", "status not in homework!"),
              value |-> None]
        ELSE IF ~Truthy(verdict)
        THEN [exc |-> Exc("ParseError",
                          "status does not match legit status names"),
              value |-> None]
        ELSE IF ~Truthy(homework_name)
        THEN [exc |-> Exc("ParseError", "homework_name not in homework"),
              value |-> None]
        ELSE [exc |-> NoError,
              value |-> "Izmenilsya status proverki raboty \""
                        \o homework_name \o "\". " \o verdict]

\* get_time_stamp() for one outcome o of its HTTP exchange
get_time_stamp(o) ==
    LET respone == get_api_answer(0, o)
        checked == check_response(respone.value)
    IN  IF respone.exc # NoError
        THEN [exc |-> respone.exc, value |-> NoDate, log |-> respone.log]
        ELSE IF checked # NoError
        THEN [exc |-> checked, value |-> NoDate, log |-> <<>>]
        ELSE [exc |-> NoError, value |-> respone.value.current_date,
              log |-> <<>>]

-----------------------------------------------------------------------------
(* main() *)

Init ==
    /\ PRACTICUM_TOKEN \in TokenValues
    /\ TELEGRAM_TOKEN \in TokenValues
    /\ TELEGRAM_CHAT_ID \in TokenValues
    /\ pc = "check_tokens"
    /\ timestamp = NoDate
    /\ response = NoResponse
    /\ status = None
    /\ error = NoError
    /\ exit_error = NoError
    /\ from_date = NoDate
    /\ api_calls = 0
    /\ requests = 0
    /\ slept = 0
    /\ sent = <<>>
    /\ log = <<>>

tokenVars == <<PRACTICUM_TOKEN, TELEGRAM_TOKEN, TELEGRAM_CHAT_ID>>

\* line 144: check_tokens(); an EmptyTokenError leaves main()
CheckTokens ==
    /\ pc = "check_tokens"
    /\ log' = log \o check_tokens.log
    /\ IF check_tokens.exc # NoError
       THEN pc' = "exited" /\ exit_error' = check_tokens.exc
       ELSE pc' = "get_time_stamp" /\ exit_error' = exit_error
    /\ UNCHANGED <<tokenVars, timestamp, response, status, error, from_date,
                   api_calls, requests, slept, sent>>

\* lines 146-147: timestamp = get_time_stamp(), outside any try block
GetTimeStamp ==
    /\ pc = "get_time_stamp"
    /\ \E o \in HttpOutcomes :
         LET r == get_time_stamp(o) IN
         /\ api_calls' = api_calls + 1
         /\ from_date' = 0
         /\ log' = log \o r.log
         /\ IF r.exc # NoError
            THEN /\ pc' = "exited"
                 /\ exit_error' = r.exc
                 /\ timestamp' = timestamp
            ELSE /\ pc' = "loop"
                 /\ exit_error' = exit_error
                 /\ timestamp' = r.value
    /\ UNCHANGED <<tokenVars, response, status, error, requests, slept, sent>>

\* line 152: response = get_api_answer(timestamp=timestamp), first statement
\* of an iteration of `while True`
GetApiAnswer ==
    /\ pc = "loop"
    /\ requests < MaxIter
    /\ \E o \in HttpOutcomes :
         LET r == get_api_answer(timestamp, o) IN
         /\ api_calls' = api_calls + 1
         /\ requests' = requests + 1
         /\ from_date' = r.payload.from_date
         /\ log' = r.log
         /\ sent' = <<>>
         /\ status' = None
         /\ error' = r.exc
         /\ IF r.exc # NoError
            THEN pc' = "except" /\ response' = response
            ELSE pc' = "check_response" /\ response' = r.value
    /\ UNCHANGED <<tokenVars, timestamp, exit_error, slept>>

\* lines 153-154: check_response(response); if homeworks := ...
CheckResponse ==
    /\ pc = "check_response"
    /\ LET e == check_response(response) IN
       /\ error' = e
       /\ pc' = IF e # NoError THEN "except"
                ELSE IF response.homeworks # <<>> THEN "parse_status"
                ELSE "finally"
    /\ UNCHANGED <<tokenVars, timestamp, response, status, exit_error,
                   from_date, api_calls, requests, slept, sent, log>>

\* lines 155-156: status = parse_status(homeworks[0])
ParseStatus ==
    /\ pc = "parse_status"
    /\ LET homework == response.homeworks[1]
           r == parse_status(homework) IN
       /\ error' = r.exc
       /\ IF r.exc # NoError
          THEN pc' = "except" /\ status' = status
          ELSE pc' = "send_message" /\ status' = r.value
    /\ UNCHANGED <<tokenVars, timestamp, response, exit_error, from_date,
                   api_calls, requests, slept, sent, log>>

\* line 157: send_message(bot=bot, message=status)
SendVerdict ==
    /\ pc = "send_message"
    /\ \E delivered \in BOOLEAN :
         LET r == send_message(status, delivered) IN
         /\ sent' = Append(sent, r.call)
         /\ log' = log \o r.log
    /\ pc' = "advance"
    /\ UNCHANGED <<tokenVars, timestamp, response, status, error, exit_error,
                   from_date, api_calls, requests, slept>>

\* line 158 without the assignment: the key is read, the cursor is kept
AdvanceKeepsCursor ==
    /\ pc = "advance"
    /\ IF response.current_date = NoDate
       THEN /\ error' = Exc("KeyError", "'current_date'")
            /\ pc' = "except"
       ELSE /\ error' = error
            /\ pc' = "finally"
    /\ UNCHANGED <<tokenVars, timestamp, response, status, exit_error,
                   from_date, api_calls, requests, slept, sent, log>>

\* line 158: timestamp = response['current_date']
Advance ==
    /\ pc = "advance"
    /\ IF response.current_date = NoDate
       THEN /\ error' = Exc("KeyError", "'current_date'")
            /\ pc' = "except"
            /\ timestamp' = timestamp
       ELSE /\ error' = error
            /\ pc' = "finally"
            /\ timestamp' = response.current_date
    /\ UNCHANGED <<tokenVars, response, status, exit_error, from_date,
                   api_calls, requests, slept, sent, log>>

FailurePrefix == "Sboy v rabote programmy: "

\* lines 160-162 without line 163: the failure is logged, not reported
ExceptLogOnly ==
    /\ pc = "except"
    /\ log' = log \o <<LogRec("ERROR", FailurePrefix \o error.msg)>>
    /\ pc' = "finally"
    /\ UNCHANGED <<tokenVars, timestamp, response, status, error, exit_error,
                   from_date, api_calls, requests, slept, sent>>

\* lines 160-163: except Exception as error
Except ==
    /\ pc = "except"
    /\ \E delivered \in BOOLEAN :
         LET message == FailurePrefix \o error.msg
             r == send_message(message, delivered) IN
         /\ sent' = Append(sent, r.call)
         /\ log' = log \o <<LogRec("ERROR", message)>> \o r.log
    /\ pc' = "finally"
    /\ UNCHANGED <<tokenVars, timestamp, response, status, error, exit_error,
                   from_date, api_calls, requests, slept>>

\* the sleep under `else:` instead of `finally:`: skipped after an error
SleepUnlessError ==
    /\ pc = "finally"
    /\ slept' = IF error = NoError THEN slept + RETRY_PERIOD ELSE slept
    /\ pc' = "loop"
    /\ UNCHANGED <<tokenVars, timestamp, response, status, error, exit_error,
                   from_date, api_calls, requests, sent, log>>

\* lines 165-166: finally: time.sleep(RETRY_PERIOD)
Sleep ==
    /\ pc = "finally"
    /\ slept' = slept + RETRY_PERIOD
    /\ pc' = "loop"
    /\ UNCHANGED <<tokenVars, timestamp, response, status, error, exit_error,
                   from_date, api_calls, requests, sent, log>>

Next ==
    \/ CheckTokens
    \/ GetTimeStamp
    \/ GetApiAnswer
    \/ CheckResponse
    \/ ParseStatus
    \/ SendVerdict
    \/ Advance
    \/ Except
    \/ Sleep

Spec == Init /\ [][Next]_vars

-----------------------------------------------------------------------------
(* Properties *)

AllTokensPresent ==
    \A t \in {PRACTICUM_TOKEN, TELEGRAM_TOKEN, TELEGRAM_CHAT_ID} :
        t \notin {None, ""}

\* positions of main() inside `while True`
LoopPcs == {"loop", "check_response", "parse_status", "send_message",
            "advance", "except", "finally"}

\* the current iteration (or the one that just slept) got a decoded body
Fetched == requests > 0 /\ pc \in LoopPcs /\ error.type # "ApiError"

\* ... and that body passed check_response
Checked == Fetched /\ pc # "check_response" /\ error.type # "TypeError"

ErrorLogged(text) == \E i \in 1..Len(log) : log[i] = LogRec("ERROR", text)

\* C1: the cursor never decreases: every value assigned to `timestamp` is
\* greater than or equal to the value it replaces, whatever current_date
\* the responses carry.
C1_CursorNeverDecreases ==
    [][(timestamp # NoDate /\ timestamp' # NoDate)
        => timestamp' >= timestamp]_vars

\* C2 (as stated): after an iteration whose request returned 200 and whose
\* body passed check_response and contains current_date, with an empty or a
\* non-empty homeworks list, the from_date of the next request equals that
\* current_date.
C2_NextFromDateIsCurrentDate ==
    [][(pc = "loop" /\ pc' # "loop" /\ Checked
        /\ response.current_date # NoDate)
        => from_date' = response.current_date]_vars

\* C2 (amended): after such an iteration the from_date of the next request
\* equals that current_date when the homeworks list is non-empty and
\* parse_status accepted its first record; when the list is empty the
\* cursor is left alone and the next from_date is the value the cursor had
\* at that iteration's own request.
C2_NextFromDateAdvancesOnVerdict ==
    [][(pc = "loop" /\ pc' # "loop" /\ Checked
        /\ response.current_date # NoDate)
        => /\ (response.homeworks # <<>> /\ error = NoError)
                => from_date' = response.current_date
           /\ response.homeworks = <<>> => from_date' = from_date]_vars

\* C2 witness: an iteration with a verdict has moved the cursor to the
\* body's current_date, away from the from_date it was requested with.
C2_Witness ==
    /\ pc = "loop" /\ Checked /\ requests < MaxIter
    /\ response.homeworks # <<>> /\ error = NoError
    /\ response.current_date # NoDate
    /\ timestamp = response.current_date
    /\ from_date # response.current_date

\* C3: main() terminates only on a missing credential: with the three
\* credentials present no error at any point of the run, cursor
\* initialisation included, ends the process.
C3_OnlyMissingCredentialTerminates ==
    pc = "exited" => ~AllTokensPresent

\* C4 (as stated): in an iteration that fails with a transport error or a
\* content error the error is logged and no message at all is passed to
\* the notifier.
C4_NoMessageOnError ==
    (pc = "finally" /\ error.type \in {"ApiError", "ParseError"})
        => /\ sent = <<>>
           /\ ErrorLogged(FailurePrefix \o error.msg)

\* C4 (amended): in an iteration that fails with a transport error or a
\* content error the error is logged, no verdict message is passed to the
\* notifier, exactly one message is passed to it, the failure report
\* "Sboy v rabote programmy: <error>", and main() stays in the loop and
\* goes on to the sleep.
C4_OnlyFailureReportOnError ==
    (pc \in {"finally", "loop"}
     /\ error.type \in {"ApiError", "ParseError"})
        => /\ Len(sent) = 1
           /\ sent[1].text = FailurePrefix \o error.msg
           /\ sent[1].chat_id = TELEGRAM_CHAT_ID
           /\ status = None
           /\ ErrorLogged(FailurePrefix \o error.msg)
           /\ exit_error = NoError

\* C4 witness: the first record had no status, the failure report went out
\* and main() is about to sleep.
C4_Witness ==
    /\ pc = "finally"
    /\ error = Exc("ParseError", "status not in homework!")
    /\ response.homeworks[1].status = None
    /\ Len(sent) = 1

\* C5: with a credential empty or absent main() ends in check_tokens with
\* EmptyTokenError before the cursor is initialised: no API request, no
\* message to the notifier, the loop never entered; with all three
\* non-empty check_tokens raises nothing.
C5_CheckTokensGuardsStartup ==
    /\ ~AllTokensPresent
         => /\ pc \in {"check_tokens", "exited"}
            /\ pc = "exited" => exit_error.type = "EmptyTokenError"
            /\ api_calls = 0 /\ requests = 0 /\ sent = <<>>
            /\ timestamp = NoDate /\ from_date = NoDate
    /\ AllTokensPresent
         => /\ exit_error.type # "EmptyTokenError"
            /\ \A i \in 1..Len(log) : log[i].level # "CRITICAL"

\* C5 witness: one credential is empty, the others are set, and main() has
\* ended with EmptyTokenError.
C5_Witness ==
    /\ pc = "exited" /\ exit_error.type = "EmptyTokenError"
    /\ PRACTICUM_TOKEN = "tok" /\ TELEGRAM_TOKEN = ""
    /\ TELEGRAM_CHAT_ID = "tok"

\* C6: every iteration issues exactly one API request and ends with exactly
\* one sleep of RETRY_PERIOD, whatever happened in it: at the top of the
\* loop the time slept is RETRY_PERIOD per request issued, inside an
\* iteration it is one RETRY_PERIOD short, and the only other request is
\* the one of get_time_stamp.
C6_OneSleepPerIteration ==
    pc \in LoopPcs
        => /\ api_calls = requests + 1
           /\ IF pc = "loop"
              THEN slept = requests * 600
              ELSE requests > 0 /\ slept = (requests - 1) * 600

\* C6 witness: two iterations are over, the last one raised an error and
\* its failure report could not be delivered, and 1200 s were slept.
C6_Witness ==
    /\ pc = "loop" /\ requests = 2 /\ slept = 1200
    /\ error # NoError
    /\ Len(sent) = 1 /\ ~sent[1].delivered

KnownStatuses == {"approved", "reviewing", "rejected"}

\* the message parse_status is to return, sentence by sentence
RefMessage(h) ==
    CASE h.status = "approved" ->
           "Izmenilsya status proverki raboty \"" \o h.homework_name
           \o "\". Rabota proverena: revyueru vsyo ponravilos. Ura!"
      [] h.status = "reviewing" ->
           "Izmenilsya status proverki raboty \"" \o h.homework_name
           \o "\". Rabota vzyata na proverku revyuerom."
      [] h.status = "rejected" ->
           "Izmenilsya status proverki raboty \"" \o h.homework_name
           \o "\". Rabota proverena: u revyuera est zamechaniya."

\* the error parse_status is to report: the first failing check in the
\* order missing status (absent or empty), unknown status, missing name
RefError(h) ==
    IF h.status \in {None, ""} THEN "status not in homework!"
    ELSE IF h.status \notin KnownStatuses
    THEN "status does not match legit status names"
    ELSE "homework_name not in homework"

\* C7: parse_status returns the message with the fixed sentence of the
\* status exactly when the status is approved, reviewing or rejected and
\* homework_name is present and non-empty; otherwise it raises ParseError
\* with the error of the first failing check and returns no message.
C7_ParseStatusMatchesReference ==
    [][pc = "parse_status"
        => LET h == response.homeworks[1] IN
           IF h.status \in KnownStatuses /\ h.homework_name \notin {None, ""}
           THEN /\ pc' = "send_message"
                /\ status' = RefMessage(h)
                /\ error' = NoError
           ELSE /\ pc' = "except"
                /\ status' = None
                /\ error' = Exc("ParseError", RefError(h))]_vars

\* C7 witness: parse_status returned the message of a record under review.
C7_Witness ==
    /\ pc = "send_message"
    /\ response.homeworks[1] = [status |-> "reviewing",
                                homework_name |-> "hw1"]
    /\ status = "Izmenilsya status proverki raboty \"hw1\". "
                \o "Rabota vzyata na proverku revyuerom."

\* C8: in an iteration whose response is a mapping with an empty homeworks
\* list, with or without current_date, no message is passed to the
\* notifier, nothing is raised or logged, and main() goes from
\* check_response straight to the sleep.
C8_EmptyListIsSilent ==
    (Fetched /\ response.is_dict /\ response.hw_is_list
     /\ response.homeworks = <<>>)
        => /\ pc \in {"check_response", "finally", "loop"}
           /\ error = NoError
           /\ sent = <<>>
           /\ log = <<>>

\* C8 witness: a body {"homeworks": []} without current_date was accepted
\* and main() is about to sleep.
C8_Witness ==
    /\ pc = "finally" /\ Fetched
    /\ response = Body(TRUE, TRUE, <<>>, NoDate)
    /\ error = NoError

\* C9: the cursor moves past a response only if its verdict message was
\* delivered: when bot.send_message failed for the verdict the cursor
\* keeps its value.
C9_AdvanceOnlyIfDelivered ==
    [][(pc = "advance" /\ ~sent[Len(sent)].delivered)
        => timestamp' = timestamp]_vars

\* C10: every iteration passes at most one message to the notifier, the
\* verdict or the failure report, never both.
C10_AtMostOneMessage ==
    Len(sent) <= 1

====
